---- MODULE Spec2Model ----
(***************************************************************************)
(* Model of the TaskFilter view (src/src/components/tasks/TaskFilter.jsx): *)
(* the React state of one mounted instance, the 'tasks' entry of           *)
(* localStorage, the 500 ms load timer and the window 'storage' events.    *)
(*                                                                         *)
(* JavaScript values are modelled by type: a scalar is a record            *)
(* [t, n, s] (type tag, number, string as a sequence of characters), an    *)
(* object is a record whose domain is the set of properties it has, an     *)
(* array is a sequence.  A JSON text is modelled by what JSON.parse makes  *)
(* of it.                                                                  *)
(***************************************************************************)
EXTENDS Integers, Sequences, FiniteSets, TLC

VARIABLES
    store,          \* localStorage entry 'tasks' (the stored text)
    events,         \* 'storage' events dispatched to the window, not yet delivered
    mounted,        \* the component is mounted (listener registered)
    timer,          \* the setTimeout of loadTasks: "pending" or "done"
    tasks,          \* useState: tasks
    filteredTasks,  \* useState: filteredTasks
    loading,        \* useState: loading
    error,          \* useState: error
    filters,        \* useState: filters
    counts,         \* useState: counts
    now,            \* Date.now(), in ms
    writes,         \* number of localStorage.setItem('tasks', ...) calls of the view
    nTask,          \* normalizeTask probe: the raw record
    nOnce,          \* normalizeTask probe: normalizeTask(nTask)
    nTwice,         \* normalizeTask probe: normalizeTask(normalizeTask(nTask))
    nPc,            \* normalizeTask probe: position
    call,           \* applyFilters / isOverdue probe: the arguments
    result,         \* applyFilters / isOverdue probe: the value returned
    callPc,         \* applyFilters / isOverdue probe: position
    ls,             \* localStorage entries 'token', 'userProfile', 'adminProfile'
    nav             \* the Navbar: auth context, route and component state

view == <<tasks, filteredTasks, loading, error, filters, counts>>
normProbe == <<nTask, nOnce, nTwice, nPc>>
callProbe == <<call, result, callPc>>
navbar == <<ls, nav>>
probe == <<normProbe, callProbe, navbar>>
taskFilter == <<store, events, mounted, timer, tasks, filteredTasks, loading, error,
                filters, counts, now, writes>>
vars == <<store, events, mounted, timer, tasks, filteredTasks, loading, error,
          filters, counts, now, writes, nTask, nOnce, nTwice, nPc,
          call, result, callPc, ls, nav>>

-----------------------------------------------------------------------------
(* Bounds *)

MaxEvents == 1      \* storage events in flight
MaxTicks == 1       \* clock ticks of LoadDelay ms each

-----------------------------------------------------------------------------
(* JavaScript scalars *)

Str(chars) == [t |-> "string", n |-> 0, s |-> chars]
Num(k) == [t |-> "number", n |-> k, s |-> <<>>]
Undefined == [t |-> "undefined", n |-> 0, s |-> <<>>]
Null == [t |-> "null", n |-> 0, s |-> <<>>]

IsScalar(v) == "t" \in DOMAIN v
IsNull(v) == IsScalar(v) /\ v.t = "null"

\* ToBoolean: undefined, null, 0 and '' are falsy
Truthy(v) ==
    \/ ~IsScalar(v)
    \/ v.t = "number" /\ v.n # 0
    \/ v.t = "string" /\ v.s # <<>>

\* a || b
Or(a, b) == IF Truthy(a) THEN a ELSE b

\* task.f : undefined when the object has no such property
Get(task, f) == IF f \in DOMAIN task THEN task[f] ELSE Undefined

-----------------------------------------------------------------------------
(* String literals of the source *)

complete == <<"c", "o", "m", "p", "l", "e", "t", "e">>
incomplete == <<"i", "n", "c", "o", "m", "p", "l", "e", "t", "e">>
all == <<"a", "l", "l">>
high == <<"h", "i", "g", "h">>
medium == <<"m", "e", "d", "i", "u", "m">>
low == <<"l", "o", "w">>
UntitledTask == <<"U", "n", "t", "i", "t", "l", "e", "d", " ", "T", "a", "s", "k">>
Unassigned == <<"U", "n", "a", "s", "s", "i", "g", "n", "e", "d">>
tasksKey == <<"t", "a", "s", "k", "s">>
LoadErrorMessage ==
    <<"F", "a", "i", "l", "e", "d", " ", "t", "o", " ", "l", "o", "a", "d", " ",
      "t", "a", "s", "k", "s", ".", " ", "P", "l", "e", "a", "s", "e", " ",
      "t", "r", "y", " ", "a", "g", "a", "i", "n", " ", "l", "a", "t", "e", "r", ".">>

UpperCase ==
    <<"A", "B", "C", "D", "E", "F", "G", "H", "I", "J", "K", "L", "M",
      "N", "O", "P", "Q", "R", "S", "T", "U", "V", "W", "X", "Y", "Z">>
LowerCase ==
    <<"a", "b", "c", "d", "e", "f", "g", "h", "i", "j", "k", "l", "m",
      "n", "o", "p", "q", "r", "s", "t", "u", "v", "w", "x", "y", "z">>
Digits == <<"0", "1", "2", "3", "4", "5", "6", "7", "8", "9">>
WhiteSpace == {" ", "\t", "\n"}

-----------------------------------------------------------------------------
(* String.prototype functions, on sequences of characters *)

toLowerChar(c) ==
    IF \E i \in 1..Len(UpperCase) : UpperCase[i] = c
    THEN LowerCase[CHOOSE i \in 1..Len(UpperCase) : UpperCase[i] = c]
    ELSE c

toLowerCase(chars) == [i \in 1..Len(chars) |-> toLowerChar(chars[i])]

trim(chars) ==
    LET keep == {i \in 1..Len(chars) : chars[i] \notin WhiteSpace}
    IN  IF keep = {} THEN <<>>
        ELSE LET first == CHOOSE i \in keep : \A j \in keep : i <= j
                 last == CHOOSE i \in keep : \A j \in keep : j <= i
             IN  SubSeq(chars, first, last)

includes(chars, part) ==
    \E i \in 0..(Len(chars) - Len(part)) :
        \A j \in 1..Len(part) : chars[i + j] = part[j]

RECURSIVE numberToString(_)
\* Number.prototype.toString of a non-negative integer
numberToString(k) ==
    IF k < 10 THEN <<Digits[k + 1]>>
    ELSE Append(numberToString(k \div 10), Digits[(k % 10) + 1])

\* Date.prototype.toISOString: the text of the instant; modelled by the
\* decimal text of the instant followed by the zone designator
toISOString(ms) == Append(numberToString(ms), "Z")

-----------------------------------------------------------------------------
(* Program constants *)

LoadDelay == 500
Day == 86400000
TwoDays == 172800000

-----------------------------------------------------------------------------
(* normalizeTask *)

\* deriveStatus with the threshold test written progress >= 80
deriveStatus_atLeast80(task) ==
    IF Get(task, "status") = Str(complete) THEN complete
    ELSE IF Get(task, "status") = Str(incomplete) THEN incomplete
    ELSE IF Get(task, "progress").t = "number"
         THEN (IF Get(task, "progress").n >= 80 THEN complete ELSE incomplete)
         ELSE incomplete

\* deriveStatus with the progress field looked at before the status field
deriveStatus_progressFirst(task) ==
    IF Get(task, "progress").t = "number"
    THEN (IF Get(task, "progress").n > 80 THEN complete ELSE incomplete)
    ELSE IF Get(task, "status") = Str(complete) THEN complete
    ELSE incomplete

\* the completion status of a raw record
deriveStatus(task) ==
    IF Get(task, "status") = Str(complete) THEN complete
    ELSE IF Get(task, "status") = Str(incomplete) THEN incomplete
    ELSE IF Get(task, "progress").t = "number"
         THEN (IF Get(task, "progress").n > 80 THEN complete ELSE incomplete)
         ELSE incomplete

\* normalizedId reading the legacy _id property only
normalizedId_legacyOnly(task, clock) ==
    Or(Get(task, "_id"), Str(numberToString(clock)))

\* id: task.id || task._id || Date.now().toString()
normalizedId(task, clock) ==
    Or(Or(Get(task, "id"), Get(task, "_id")), Str(numberToString(clock)))

\* normalizedPriority with ?? in place of ||: only a missing priority is defaulted
normalizedPriority_nullish(task) ==
    IF Get(task, "priority").t \in {"undefined", "null"}
    THEN Str(medium) ELSE Get(task, "priority")

\* priority: task.priority || 'medium'
normalizedPriority(task) == Or(Get(task, "priority"), Str(medium))

\* progress: task.progress || (status === 'complete' ? 100 : 0)
normalizedProgress(task, status) ==
    Or(Get(task, "progress"), IF status = complete THEN Num(100) ELSE Num(0))

\* normalizeTask(task), at the instant clock; defined for every value but
\* null, on which the property access throws a TypeError
normalizeTask(task, clock) ==
    LET status == deriveStatus(task)
    IN  [id |-> normalizedId(task, clock),
         title |-> Or(Get(task, "title"), Str(UntitledTask)),
         description |-> Or(Get(task, "description"), Str(<<>>)),
         status |-> Str(status),
         priority |-> normalizedPriority(task),
         dueDate |-> Or(Or(Get(task, "dueDate"), Get(task, "deadline")), Null),
         createdAt |-> Or(Get(task, "createdAt"), Str(toISOString(clock))),
         progress |-> normalizedProgress(task, status),
         assignedTo |-> Or(Get(task, "assignedTo"), Str(Unassigned))]

normalizeThrows(task) == IsNull(task)

\* parsedTasks.map(normalizeTask)
mapNormalize(list, clock) == [i \in 1..Len(list) |-> normalizeTask(list[i], clock)]

mapThrows(list) == \E i \in 1..Len(list) : normalizeThrows(list[i])

-----------------------------------------------------------------------------
(* updateCounts and applyFilters: the value handed to the state setter;    *)
(* Array.prototype.filter is SelectSeq                                     *)

\* updateCounts with the literal of the second test misspelt
updateCounts_misspelt(taskList) ==
    LET isComplete(task) == task.status = Str(complete)
        isIncomplete(task) == task.status = Str(<<"I">> \o Tail(incomplete))
    IN  [all |-> Len(taskList),
         complete |-> Len(SelectSeq(taskList, isComplete)),
         incomplete |-> Len(SelectSeq(taskList, isIncomplete))]

updateCounts(taskList) ==
    LET isComplete(task) == task.status = Str(complete)
        isIncomplete(task) == task.status = Str(incomplete)
    IN  [all |-> Len(taskList),
         complete |-> Len(SelectSeq(taskList, isComplete)),
         incomplete |-> Len(SelectSeq(taskList, isIncomplete))]

\* applyFilters searching the title only
applyFilters_titleOnly(taskList, filterSettings) ==
    LET statusOk(task) == task.status = Str(filterSettings.status)
        priorityOk(task) ==
            /\ Truthy(task.priority)
            /\ toLowerCase(task.priority.s) = toLowerCase(filterSettings.priority)
        searchTerm == trim(toLowerCase(filterSettings.search))
        searchOk(task) == includes(toLowerCase(task.title.s), searchTerm)
        byStatus == IF filterSettings.status # all
                    THEN SelectSeq(taskList, statusOk) ELSE taskList
        byPriority == IF filterSettings.priority # all
                      THEN SelectSeq(byStatus, priorityOk) ELSE byStatus
    IN  IF trim(filterSettings.search) # <<>>
        THEN SelectSeq(byPriority, searchOk) ELSE byPriority

applyFilters(taskList, filterSettings) ==
    LET statusOk(task) == task.status = Str(filterSettings.status)
        priorityOk(task) ==
            /\ Truthy(task.priority)
            /\ toLowerCase(task.priority.s) = toLowerCase(filterSettings.priority)
        searchTerm == trim(toLowerCase(filterSettings.search))
        searchOk(task) ==
            \/ includes(toLowerCase(task.title.s), searchTerm)
            \/ includes(toLowerCase(task.description.s), searchTerm)
            \/ /\ Truthy(task.assignedTo)
               /\ includes(toLowerCase(task.assignedTo.s), searchTerm)
        byStatus == IF filterSettings.status # all
                    THEN SelectSeq(taskList, statusOk) ELSE taskList
        byPriority == IF filterSettings.priority # all
                      THEN SelectSeq(byStatus, priorityOk) ELSE byStatus
    IN  IF trim(filterSettings.search) # <<>>
        THEN SelectSeq(byPriority, searchOk) ELSE byPriority

DefaultFilters == [status |-> all, search |-> <<>>, priority |-> all]

-----------------------------------------------------------------------------
(* localStorage texts and JSON *)

\* A stored text, by what the program can make of it:
\*   "null"      no entry: getItem returns null
\*   "empty"     the empty string
\*   "invalid"   a text JSON.parse rejects
\*   "nonarray"  a JSON text of a value that is not an array, such as '{}'
\*   "array"     a JSON text of the array items
NoEntry == [kind |-> "null", items |-> <<>>]
EmptyText == [kind |-> "empty", items |-> <<>>]
InvalidText == [kind |-> "invalid", items |-> <<>>]
NonArrayText == [kind |-> "nonarray", items |-> <<>>]
ArrayText(items) == [kind |-> "array", items |-> items]

\* ToBoolean of a getItem result or of e.newValue
TextTruthy(text) == text.kind \notin {"null", "empty"}

\* JSON.parse(text) throws a SyntaxError
parseThrows(text) == text.kind \in {"empty", "invalid"}

\* JSON.parse(text).map(normalizeTask) throws: SyntaxError of the parse,
\* TypeError of .map on a non-array, TypeError of normalizeTask on null
parseMapThrows(text) ==
    \/ parseThrows(text)
    \/ text.kind # "array"
    \/ mapThrows(text.items)

\* JSON.stringify of an array of records
stringify(list) == ArrayText(list)

\* e.newValue || '[]'
newValueOrEmpty(text) == IF TextTruthy(text) THEN text ELSE ArrayText(<<>>)

-----------------------------------------------------------------------------
(* Texts and records of the model *)

FixBug == <<"F", "i", "x", " ", "B", "u", "g">>
Docs == <<"D", "o", "c", "s">>
Alice == <<"A", "l", "i", "c", "e">>
High == <<"H", "i", "g", "h">>
urgent == <<"u", "r", "g", "e", "n", "t">>
pending == <<"p", "e", "n", "d", "i", "n", "g">>
fix == <<"f", "i", "x">>
tokenKey == <<"t", "o", "k", "e", "n">>

\* status-based, complete
recA == [_id |-> Str(<<"1">>), title |-> Str(FixBug), status |-> Str(complete),
         priority |-> Str(High), assignedTo |-> Str(Alice)]
\* progress-based, complete; its status is none of the two known ones
recB == [id |-> Str(<<"2">>), title |-> Str(Docs), status |-> Str(pending),
         progress |-> Num(90), priority |-> Str(low)]
\* status-based, incomplete, neither id nor priority
recC == [title |-> Str(Docs), description |-> Str(fix), status |-> Str(incomplete)]

StoredTexts ==
    {NoEntry, EmptyText, InvalidText, NonArrayText,
     ArrayText(<<>>), ArrayText(<<recA>>), ArrayText(<<recC, recB>>),
     ArrayText(<<recA, Null>>)}

SearchInputs == {<<>>, fix}

\* sampleTasks, built at the instant clock
sampleTasks(clock) ==
    << [_id |-> Str(<<"1">>),
        title |-> Str(<<"C", "o", "m", "p", "l", "e", "t", "e", " ", "p", "r",
                        "o", "j", "e", "c", "t", " ", "d", "o", "c", "u", "m",
                        "e", "n", "t", "a", "t", "i", "o", "n">>),
        description |-> Str(<<"W", "r", "i", "t", "e", " ", "c", "o", "m", "p",
                              "r", "e", "h", "e", "n", "s", "i", "v", "e", " ",
                              "d", "o", "c", "u", "m", "e", "n", "t", "a", "t",
                              "i", "o", "n", " ", "f", "o", "r", " ", "t", "h",
                              "e", " ", "n", "e", "w", " ", "f", "e", "a", "t",
                              "u", "r", "e">>),
        status |-> Str(incomplete),
        priority |-> Str(high),
        dueDate |-> Str(toISOString(clock + Day)),
        createdAt |-> Str(toISOString(clock))],
       [_id |-> Str(<<"2">>),
        title |-> Str(<<"F", "i", "x", " ", "n", "a", "v", "i", "g", "a", "t",
                        "i", "o", "n", " ", "b", "u", "g">>),
        description |-> Str(<<"A", "d", "d", "r", "e", "s", "s", " ", "t", "h",
                              "e", " ", "i", "s", "s", "u", "e", " ", "w", "i",
                              "t", "h", " ", "s", "i", "d", "e", "b", "a", "r",
                              " ", "n", "a", "v", "i", "g", "a", "t", "i", "o",
                              "n", " ", "o", "n", " ", "m", "o", "b", "i", "l",
                              "e", " ", "d", "e", "v", "i", "c", "e", "s">>),
        status |-> Str(complete),
        priority |-> Str(medium),
        dueDate |-> Str(toISOString(clock)),
        createdAt |-> Str(toISOString(clock - Day))],
       [_id |-> Str(<<"3">>),
        title |-> Str(<<"I", "m", "p", "l", "e", "m", "e", "n", "t", " ", "u",
                        "s", "e", "r", " ", "f", "e", "e", "d", "b", "a", "c",
                        "k">>),
        description |-> Str(<<"A", "d", "d", " ", "t", "h", "e", " ", "u", "s",
                              "e", "r", " ", "f", "e", "e", "d", "b", "a", "c",
                              "k", " ", "f", "o", "r", "m", " ", "t", "o", " ",
                              "t", "h", "e", " ", "d", "a", "s", "h", "b", "o",
                              "a", "r", "d">>),
        status |-> Str(incomplete),
        priority |-> Str(low),
        dueDate |-> Str(toISOString(clock + TwoDays)),
        createdAt |-> Str(toISOString(clock - TwoDays))] >>

\* Date.now() when the component mounts
MountTime == TwoDays

-----------------------------------------------------------------------------
(* The view *)

\* The effect runs once (dependency list []), so loadTasks and
\* handleStorageChange see the filters of the first render
closureFilters == DefaultFilters

\* The render shows the filter controls only past the loading and the
\* error branches
controlsShown == mounted /\ ~loading /\ ~Truthy(error)

\* A Reset Filters button is rendered
resetShown ==
    /\ controlsShown
    /\ \/ filters.search # <<>>
       \/ filters.status # all
       \/ filters.priority # all
       \/ filteredTasks = <<>> /\ Len(tasks) > 0

\* the probes and the Navbar, when not under study
normIdle == nTask = Undefined /\ nOnce = Undefined /\ nTwice = Undefined /\ nPc = "idle"
callIdle == call = Undefined /\ result = Undefined /\ callPc = "idle"
navbarIdle == ls = Undefined /\ nav = Undefined

\* the TaskFilter view just mounted over an empty store, when not under study
taskFilterIdle ==
    /\ store = NoEntry
    /\ events = <<>>
    /\ mounted = TRUE
    /\ timer = "pending"
    /\ tasks = <<>>
    /\ filteredTasks = <<>>
    /\ loading = TRUE
    /\ error = Null
    /\ filters = DefaultFilters
    /\ counts = [all |-> 0, complete |-> 0, incomplete |-> 0]
    /\ now = MountTime
    /\ writes = 0

Init ==
    /\ store \in StoredTexts
    /\ events = <<>>
    /\ mounted = TRUE
    /\ timer = "pending"
    /\ tasks = <<>>
    /\ filteredTasks = <<>>
    /\ loading = TRUE
    /\ error = Null
    /\ filters = DefaultFilters
    /\ counts = [all |-> 0, complete |-> 0, incomplete |-> 0]
    /\ now = MountTime
    /\ writes = 0
    /\ normIdle
    /\ callIdle
    /\ navbarIdle

\* Time passes
Tick ==
    /\ now < MountTime + MaxTicks * LoadDelay
    /\ now' = now + LoadDelay
    /\ UNCHANGED <<store, events, mounted, timer, view, writes, probe>>

\* noStoredTasks also taking a stored empty list for no tasks
noStoredTasks_orEmptyList(storedTasks) ==
    ~TextTruthy(storedTasks) \/ storedTasks = ArrayText(<<>>)

\* if (storedTasks) ... else: the else branch seeds the sample tasks
noStoredTasks(storedTasks) == ~TextTruthy(storedTasks)

\* loadTasks with setLoading(false) at the end of the try, not in a finally
loadTasks_noFinally ==
    /\ timer = "pending"
    /\ now >= MountTime + LoadDelay
    /\ timer' = "done"
    /\ IF ~noStoredTasks(store)
       THEN /\ UNCHANGED <<store, writes>>
            /\ IF parseMapThrows(store)
               THEN /\ error' = IF mounted THEN Str(LoadErrorMessage) ELSE error
                    /\ UNCHANGED <<tasks, filteredTasks, counts>>
               ELSE LET normalizedTasks == mapNormalize(store.items, now)
                    IN  IF mounted
                        THEN /\ tasks' = normalizedTasks
                             /\ filteredTasks' = applyFilters(normalizedTasks, closureFilters)
                             /\ counts' = updateCounts(normalizedTasks)
                             /\ error' = Null
                        ELSE UNCHANGED <<tasks, filteredTasks, counts, error>>
       ELSE LET normalizedSampleTasks == mapNormalize(sampleTasks(now), now)
            IN  /\ IF mounted
                   THEN /\ tasks' = normalizedSampleTasks
                        /\ filteredTasks' = applyFilters(normalizedSampleTasks, closureFilters)
                        /\ counts' = updateCounts(normalizedSampleTasks)
                        /\ error' = Null
                   ELSE UNCHANGED <<tasks, filteredTasks, counts, error>>
                /\ store' = stringify(sampleTasks(now))
                /\ writes' = writes + 1
    /\ loading' = IF mounted /\ ~(~noStoredTasks(store) /\ parseMapThrows(store))
                THEN FALSE ELSE loading
    /\ UNCHANGED <<events, mounted, filters, now, probe>>

\* loadTasks, from the expiry of its 500 ms timer to its end.  The timer is
\* never cleared; the state setters of an unmounted component do nothing.
loadTasks ==
    /\ timer = "pending"
    /\ now >= MountTime + LoadDelay
    /\ timer' = "done"
    /\ IF ~noStoredTasks(store)
       THEN /\ UNCHANGED <<store, writes>>
            /\ IF parseMapThrows(store)
               THEN /\ error' = IF mounted THEN Str(LoadErrorMessage) ELSE error
                    /\ UNCHANGED <<tasks, filteredTasks, counts>>
               ELSE LET normalizedTasks == mapNormalize(store.items, now)
                    IN  IF mounted
                        THEN /\ tasks' = normalizedTasks
                             /\ filteredTasks' = applyFilters(normalizedTasks, closureFilters)
                             /\ counts' = updateCounts(normalizedTasks)
                             /\ error' = Null
                        ELSE UNCHANGED <<tasks, filteredTasks, counts, error>>
       ELSE LET normalizedSampleTasks == mapNormalize(sampleTasks(now), now)
            IN  /\ IF mounted
                   THEN /\ tasks' = normalizedSampleTasks
                        /\ filteredTasks' = applyFilters(normalizedSampleTasks, closureFilters)
                        /\ counts' = updateCounts(normalizedSampleTasks)
                        /\ error' = Null
                   ELSE UNCHANGED <<tasks, filteredTasks, counts, error>>
                /\ store' = stringify(sampleTasks(now))
                /\ writes' = writes + 1
    /\ loading' = IF mounted THEN FALSE ELSE loading
    /\ UNCHANGED <<events, mounted, filters, now, probe>>

\* handleStorageChange appending the new records to the list it has
handleStorageChange_merge(e) ==
    IF e.key = tasksKey /\ ~parseMapThrows(newValueOrEmpty(e.newValue))
    THEN LET normalizedTasks ==
                 tasks \o mapNormalize(newValueOrEmpty(e.newValue).items, now)
         IN  /\ tasks' = normalizedTasks
             /\ filteredTasks' = applyFilters(normalizedTasks, closureFilters)
             /\ counts' = updateCounts(normalizedTasks)
             /\ UNCHANGED <<loading, error, filters>>
    ELSE UNCHANGED view

\* handleStorageChange ending with setError(null), as loadTasks does
handleStorageChange_clearsError(e) ==
    IF e.key = tasksKey /\ ~parseMapThrows(newValueOrEmpty(e.newValue))
    THEN LET normalizedTasks == mapNormalize(newValueOrEmpty(e.newValue).items, now)
         IN  /\ tasks' = normalizedTasks
             /\ filteredTasks' = applyFilters(normalizedTasks, closureFilters)
             /\ counts' = updateCounts(normalizedTasks)
             /\ error' = Null
             /\ UNCHANGED <<loading, filters>>
    ELSE UNCHANGED view

\* handleStorageChange whose catch empties the view
handleStorageChange_resetsOnError(e) ==
    IF e.key = tasksKey
    THEN LET normalizedTasks ==
                 IF parseMapThrows(newValueOrEmpty(e.newValue)) THEN <<>>
                 ELSE mapNormalize(newValueOrEmpty(e.newValue).items, now)
         IN  /\ tasks' = normalizedTasks
             /\ filteredTasks' = applyFilters(normalizedTasks, closureFilters)
             /\ counts' = updateCounts(normalizedTasks)
             /\ UNCHANGED <<loading, error, filters>>
    ELSE UNCHANGED view

\* handleStorageChange(e)
handleStorageChange(e) ==
    IF e.key = tasksKey /\ ~parseMapThrows(newValueOrEmpty(e.newValue))
    THEN LET normalizedTasks == mapNormalize(newValueOrEmpty(e.newValue).items, now)
         IN  /\ tasks' = normalizedTasks
             /\ filteredTasks' = applyFilters(normalizedTasks, closureFilters)
             /\ counts' = updateCounts(normalizedTasks)
             /\ UNCHANGED <<loading, error, filters>>
    ELSE UNCHANGED view

\* The window delivers the oldest 'storage' event to the listener, which is
\* registered while the component is mounted
storageEvent ==
    /\ events # <<>>
    /\ events' = Tail(events)
    /\ IF mounted THEN handleStorageChange(Head(events)) ELSE UNCHANGED view
    /\ UNCHANGED <<store, mounted, timer, now, writes, probe>>

\* Another tab sets or removes the 'tasks' entry; this window is notified
otherTabWritesTasks(text) ==
    /\ Len(events) < MaxEvents
    /\ store' = text
    /\ events' = Append(events, [key |-> tasksKey, newValue |-> text])
    /\ UNCHANGED <<mounted, timer, view, now, writes, probe>>

\* Another tab sets another entry; this window is notified
otherTabWritesOther(text) ==
    /\ Len(events) < MaxEvents
    /\ events' = Append(events, [key |-> tokenKey, newValue |-> text])
    /\ UNCHANGED <<store, mounted, timer, view, now, writes, probe>>

\* handleFilterChange also recounting, over the filtered list
handleFilterChange_recount(filterType, value) ==
    /\ controlsShown
    /\ LET newFilters == [filters EXCEPT ![filterType] = value]
       IN  /\ filters' = newFilters
           /\ filteredTasks' = applyFilters(tasks, newFilters)
           /\ counts' = updateCounts(applyFilters(tasks, newFilters))
    /\ UNCHANGED <<store, events, mounted, timer, tasks, loading, error,
                   now, writes, probe>>

\* handleFilterChange(filterType, value)
handleFilterChange(filterType, value) ==
    /\ controlsShown
    /\ LET newFilters == [filters EXCEPT ![filterType] = value]
       IN  /\ filters' = newFilters
           /\ filteredTasks' = applyFilters(tasks, newFilters)
    /\ UNCHANGED <<store, events, mounted, timer, tasks, loading, error, counts,
                   now, writes, probe>>

\* resetFilters()
resetFilters ==
    /\ resetShown
    /\ filters' = DefaultFilters
    /\ filteredTasks' = applyFilters(tasks, DefaultFilters)
    /\ UNCHANGED <<store, events, mounted, timer, tasks, loading, error, counts,
                   now, writes, probe>>

\* The effect's cleanup: the listener is removed
unmount ==
    /\ mounted
    /\ mounted' = FALSE
    /\ UNCHANGED <<store, events, timer, view, now, writes, probe>>

Next ==
    \/ Tick
    \/ loadTasks
    \/ storageEvent
    \/ \E text \in StoredTexts : otherTabWritesTasks(text)
    \/ otherTabWritesOther(ArrayText(<<recB>>))
    \/ \E value \in {all, complete, incomplete} : handleFilterChange("status", value)
    \/ \E value \in {all, high, medium, low} : handleFilterChange("priority", value)
    \/ \E value \in SearchInputs : handleFilterChange("search", value)
    \/ resetFilters
    \/ unmount

Spec == Init /\ [][Next]_vars

-----------------------------------------------------------------------------
(* normalizeTask on its own: the raw record is drawn from RawRecords, then *)
(* normalized, then the result is normalized again, at one instant         *)

\* drop the properties that are undefined
Strip(full) == [f \in {g \in DOMAIN full : full[g] # Undefined} |-> full[f]]

ProgressValues == {0, 80, 81, 100}

RawRecords ==
    { Strip(full) : full \in
        [id : {Undefined, Str(<<"7">>)},
         _id : {Undefined, Str(<<"1">>)},
         title : {Undefined, Str(FixBug)},
         description : {Undefined, Str(fix)},
         status : {Undefined, Str(complete), Str(incomplete), Str(pending)},
         priority : {Undefined, Str(<<>>), Str(high), Str(High), Str(urgent)},
         dueDate : {Undefined, Str(toISOString(MountTime + Day))},
         deadline : {Undefined, Str(toISOString(MountTime))},
         createdAt : {Undefined, Str(toISOString(MountTime - Day))},
         progress : {Undefined, Str(<<"9", "0">>)} \cup {Num(p) : p \in ProgressValues},
         assignedTo : {Undefined, Str(Alice)}] }

NormInit ==
    /\ taskFilterIdle
    /\ callIdle
    /\ navbarIdle
    /\ nTask \in RawRecords
    /\ nOnce = Undefined
    /\ nTwice = Undefined
    /\ nPc = "start"

normalizeOnce ==
    /\ nPc = "start"
    /\ ~normalizeThrows(nTask)
    /\ nOnce' = normalizeTask(nTask, now)
    /\ nPc' = "once"
    /\ UNCHANGED <<taskFilter, callProbe, navbar, nTask, nTwice>>

normalizeTwice ==
    /\ nPc = "once"
    /\ nTwice' = normalizeTask(nOnce, now)
    /\ nPc' = "twice"
    /\ UNCHANGED <<taskFilter, callProbe, navbar, nTask, nOnce>>

NormNext == normalizeOnce \/ normalizeTwice

NormSpec == NormInit /\ [][NormNext]_vars

-----------------------------------------------------------------------------
(* Properties of normalizeTask, checked under NormSpec *)

NoStatusField == "status" \notin DOMAIN nTask
NumericProgress == Get(nTask, "progress").t = "number"

\* C7: a raw record with no status field is complete exactly when its
\* numeric progress is above 80, and incomplete when it has no progress
C7_ProgressThreshold ==
    (nPc # "start" /\ NoStatusField) =>
        /\ NumericProgress =>
              (nOnce.status = Str(complete) <=> nTask.progress.n > 80)
        /\ NumericProgress => nOnce.status \in {Str(complete), Str(incomplete)}
        /\ "progress" \notin DOMAIN nTask => nOnce.status = Str(incomplete)

C7_Witness ==
    /\ nPc = "once"
    /\ NoStatusField
    /\ Get(nTask, "progress") = Num(81)
    /\ nOnce.status = Str(complete)

\* the normalized status of nTask with its progress replaced by p
StatusWithProgress(p) ==
    normalizeTask([nTask EXCEPT !.progress = Num(p)], now).status

\* C8 as stated: with both a status field and a numeric progress, the
\* progress value has no influence on the normalized status
C8_StatusFieldAlone ==
    (nPc # "start" /\ ~NoStatusField /\ NumericProgress) =>
        \A p \in ProgressValues : StatusWithProgress(p) = nOnce.status

\* C8 amended: a status field equal to 'complete' or 'incomplete' is the
\* normalized status whatever the progress; any other status value leaves
\* the decision to the progress threshold
C8_KnownStatusWins ==
    (nPc # "start" /\ ~NoStatusField /\ NumericProgress) =>
        IF nTask.status \in {Str(complete), Str(incomplete)}
        THEN /\ nOnce.status = nTask.status
             /\ \A p \in ProgressValues : StatusWithProgress(p) = nTask.status
        ELSE nOnce.status = Str(complete) <=> nTask.progress.n > 80

C8_Witness ==
    /\ nPc = "once"
    /\ Get(nTask, "status") = Str(incomplete)
    /\ Get(nTask, "progress") = Num(100)
    /\ nOnce.status = Str(incomplete)

\* C9: normalizing a normalized record at the same instant gives the same
\* record, field by field
C9_Idempotent ==
    nPc = "twice" =>
        /\ DOMAIN nTwice = DOMAIN nOnce
        /\ \A f \in DOMAIN nOnce : nTwice[f] = nOnce[f]

C9_Witness ==
    /\ nPc = "twice"
    /\ DOMAIN nTask = {"_id", "deadline", "status", "progress"}
    /\ nTask.status = Str(pending)
    /\ nTask.progress = Num(81)
    /\ nTwice.id = nTask._id
    /\ nTwice.dueDate = nTask.deadline

EnumPriorities == {Str(high), Str(medium), Str(low)}

\* C10 as stated: the normalized priority is high, medium or low, and is
\* medium when the source priority is absent or outside that set
C10_PriorityEnum ==
    nPc # "start" =>
        /\ nOnce.priority \in EnumPriorities
        /\ Get(nTask, "priority") \notin EnumPriorities => nOnce.priority = Str(medium)

\* C10 amended: the normalized priority is the source priority unchanged
\* when the source has a non-empty one, and medium when the source priority
\* is absent or empty; so it is high, medium or low when the source priority
\* is absent, empty or one of the three
C10_PriorityKeptOrMedium ==
    nPc # "start" =>
        /\ ("priority" \in DOMAIN nTask /\ nTask.priority.s # <<>>)
              => nOnce.priority = nTask.priority
        /\ ("priority" \notin DOMAIN nTask \/ Get(nTask, "priority").s = <<>>)
              => nOnce.priority = Str(medium)
        /\ (Get(nTask, "priority") \in EnumPriorities \cup {Undefined, Str(<<>>)})
              => nOnce.priority \in EnumPriorities

C10_Witness ==
    /\ nPc = "once"
    /\ Get(nTask, "priority") = Str(urgent)
    /\ nOnce.priority = Str(urgent)

\* the source progress is missing or an integer of 0..100
WellFormedProgress ==
    \/ "progress" \notin DOMAIN nTask
    \/ NumericProgress /\ nTask.progress.n \in 0..100

\* C11: the normalized progress is an integer of 0..100; a source progress
\* within 0..100 is kept, and a missing one is synthesized as 100 for a
\* complete and 0 for an incomplete record
C11_ProgressKeptOrSynthesized ==
    (nPc # "start" /\ WellFormedProgress) =>
        /\ nOnce.progress.t = "number"
        /\ nOnce.progress.n \in 0..100
        /\ NumericProgress => nOnce.progress = nTask.progress
        /\ "progress" \notin DOMAIN nTask
              => nOnce.progress = (IF nOnce.status = Str(complete) THEN Num(100) ELSE Num(0))

-----------------------------------------------------------------------------
(* Properties of the view, checked under Spec *)

\* C1: once the initial load is over, the visible list is the filter
\* function applied to the task list under the selected criteria
C1_FilteredIsDerived ==
    (mounted /\ timer = "done") => filteredTasks = applyFilters(tasks, filters)

\* C2: counts.all is the length of the task list and the complete and
\* incomplete counts add up to it
C2_CountsPartition ==
    /\ counts.all = Len(tasks)
    /\ counts.complete + counts.incomplete = counts.all
    /\ counts.complete = Cardinality({i \in 1..Len(tasks) : tasks[i].status = Str(complete)})

C2_Witness ==
    /\ counts.complete = 1
    /\ counts.incomplete = 1
    /\ filters.status = complete
    /\ Len(filteredTasks) = 1

\* a step of loadTasks: the timer callback runs
LoadStep == timer = "pending" /\ timer' = "done"

\* C3: the load callback that fires after the unmount changes neither the
\* view state nor the stored tasks
C3_LateLoadIsNoOp ==
    [][(LoadStep /\ ~mounted) => UNCHANGED <<view, store>>]_vars

\* a step that delivers the oldest storage event
DeliverStep == events # <<>> /\ events' = Tail(events)

\* the text is a JSON array of records
RecordArray(text) ==
    text.kind = "array" /\ \A i \in 1..Len(text.items) : ~IsNull(text.items[i])

\* C4: a 'tasks' notification with an array of records replaces the task
\* list by the normalized records, in order, and the counts by those of the
\* new list; a removed entry gives the empty list and zero counts
C4_StorageReplaces ==
    [][(/\ DeliverStep
        /\ mounted
        /\ Head(events).key = tasksKey
        /\ (RecordArray(Head(events).newValue) \/ Head(events).newValue = NoEntry))
       => LET items == Head(events).newValue.items
          IN  /\ Len(tasks') = Len(items)
              /\ \A i \in 1..Len(items) : tasks'[i] = normalizeTask(items[i], now)
              /\ counts'.all = Len(items)
              /\ counts'.complete =
                    Cardinality({i \in 1..Len(items) : tasks'[i].status = Str(complete)})
              /\ counts'.incomplete =
                    Cardinality({i \in 1..Len(items) : tasks'[i].status = Str(incomplete)})
      ]_vars

\* the three sample tasks were seeded, and a notification has since replaced
\* them by one record
C4_Witness ==
    /\ mounted
    /\ writes = 1
    /\ events = <<>>
    /\ Len(tasks) = 1
    /\ tasks[1].title = Str(FixBug)
    /\ counts = [all |-> 1, complete |-> 1, incomplete |-> 0]

\* a step in which the stored text changes and no other tab's notification
\* is queued for it: the view wrote the entry
ViewWrote ==
    \/ writes' # writes
    \/ /\ store' # store
       /\ events' # Append(events, [key |-> tasksKey, newValue |-> store'])

\* C5 as stated: the view writes the entry only in the load, only once, and
\* only when no value is stored
C5_WritesOnlyWhenAbsent ==
    [][ViewWrote => (LoadStep /\ writes = 0 /\ writes' = 1 /\ store = NoEntry)]_vars

\* C5 amended: the view writes the entry only in the load, only once, and
\* only when no value or the empty string is stored; a non-empty stored
\* value is never overwritten by the view
C5_WritesOnlyWhenAbsentOrEmpty ==
    [][ViewWrote => (/\ LoadStep
                     /\ writes = 0
                     /\ writes' = 1
                     /\ store \in {NoEntry, EmptyText}
                     /\ store' = ArrayText(sampleTasks(now)))]_vars

C5_Witness ==
    /\ writes = 1
    /\ timer = "done"
    /\ store = ArrayText(sampleTasks(now))
    /\ Len(tasks) = 3

\* the stored text cannot be parsed or processed
Unloadable(text) ==
    \/ text.kind \in {"invalid", "nonarray"}
    \/ text.kind = "array" /\ \E i \in 1..Len(text.items) : IsNull(text.items[i])

\* C6 as stated: a load of an unloadable text enters the error state with
\* loading ended and an empty task list
C6_ErrorWithEmptyList ==
    [][(LoadStep /\ mounted /\ Unloadable(store))
          => (Truthy(error') /\ ~loading' /\ tasks' = <<>>)]_vars

\* C6 amended: a load of an unloadable text sets the error, ends loading and
\* leaves the task list, the visible list and the counts as they were
\* (empty unless a notification replaced them during the delay); once set,
\* the error stays, loading stays ended and the load is not run again
C6_ErrorTerminal ==
    [][/\ (LoadStep /\ mounted /\ Unloadable(store))
            => /\ error' = Str(LoadErrorMessage)
               /\ ~loading'
               /\ UNCHANGED <<tasks, filteredTasks, counts, store>>
       /\ Truthy(error)
            => /\ error' = error
               /\ ~loading /\ ~loading'
               /\ timer = "done" /\ timer' = "done"
               /\ filters' = filters
      ]_vars

\* the error state, with a task list a notification put there
C6_Witness ==
    /\ Truthy(error)
    /\ ~loading
    /\ mounted
    /\ Len(tasks) = 2
    /\ events = <<>>

-----------------------------------------------------------------------------
(* applyFilters on its own: a canonical task list and a criteria triple    *)
(* are drawn, then filtered                                                *)

MaxListLen == 2     \* length of the task list filtered

CanonicalTasks == {normalizeTask(r, MountTime) : r \in {recA, recB, recC}}

TaskLists == UNION {[1..n -> CanonicalTasks] : n \in 0..MaxListLen}

SearchTexts ==
    {<<>>, <<" ", " ">>, fix, <<"f", "i", "x", " ">>, <<"A", "L", "I", "C", "E">>, <<"z">>}

Criteria ==
    [status : {all, complete, incomplete},
     search : SearchTexts,
     priority : {all, high, medium, low}]

FilterInit ==
    /\ taskFilterIdle
    /\ normIdle
    /\ navbarIdle
    /\ call \in [taskList : TaskLists, filterSettings : Criteria]
    /\ result = Undefined
    /\ callPc = "start"

applyFiltersCall ==
    /\ callPc = "start"
    /\ "taskList" \in DOMAIN call
    /\ result' = applyFilters(call.taskList, call.filterSettings)
    /\ callPc' = "done"
    /\ UNCHANGED <<taskFilter, normProbe, navbar, call>>

FilterNext == applyFiltersCall

FilterSpec == FilterInit /\ [][FilterNext]_vars

\* the text occurs in the title, the description or the assignee, case ignored
Occurs(text, task) ==
    \/ includes(toLowerCase(task.title.s), toLowerCase(text))
    \/ includes(toLowerCase(task.description.s), toLowerCase(text))
    \/ includes(toLowerCase(task.assignedTo.s), toLowerCase(text))

\* the task passes the status and the priority criteria
StatusPriorityOk(task, criteria) ==
    /\ criteria.status = all \/ task.status.s = criteria.status
    /\ criteria.priority = all
         \/ toLowerCase(task.priority.s) = toLowerCase(criteria.priority)

Blank(text) == \A i \in 1..Len(text) : text[i] \in WhiteSpace

\* res is the subsequence of list at the indices kept, in order
SubsequenceAt(res, list, kept) ==
    /\ Len(res) = Cardinality(kept)
    /\ \A i \in kept : res[Cardinality({j \in kept : j <= i})] = list[i]

\* C12 as stated: the result is the order-preserving subsequence of the
\* tasks that pass the status and priority criteria and in which the search
\* text occurs, unless that text is empty or blank
C12_FilterBySearchText ==
    callPc = "done" =>
        LET c == call.filterSettings
            kept == {i \in 1..Len(call.taskList) :
                        /\ StatusPriorityOk(call.taskList[i], c)
                        /\ Blank(c.search) \/ Occurs(c.search, call.taskList[i])}
        IN  SubsequenceAt(result, call.taskList, kept)

\* C12 amended: as stated, with the search text taken without its leading
\* and trailing white space
C12_FilterByTrimmedSearchText ==
    callPc = "done" =>
        LET c == call.filterSettings
            kept == {i \in 1..Len(call.taskList) :
                        /\ StatusPriorityOk(call.taskList[i], c)
                        /\ Blank(c.search) \/ Occurs(trim(c.search), call.taskList[i])}
        IN  /\ SubsequenceAt(result, call.taskList, kept)
            /\ c = DefaultFilters => result = call.taskList

C12_Witness ==
    /\ callPc = "done"
    /\ call.filterSettings =
          [status |-> incomplete, search |-> <<"f", "i", "x", " ">>, priority |-> medium]
    /\ Len(call.taskList) = 2
    /\ call.taskList[1].status = Str(complete)
    /\ result = <<call.taskList[2]>>

-----------------------------------------------------------------------------
(* isOverdue on its own: a due date, the current instant and the zone of   *)
(* the browser are drawn, then isOverdue is called                         *)

RECURSIVE digitsToNumber(_)
\* the number written by a non-empty sequence of decimal digits
digitsToNumber(chars) ==
    LET digit(c) == (CHOOSE d \in 1..Len(Digits) : Digits[d] = c) - 1
    IN  IF Len(chars) = 1 THEN digit(chars[1])
        ELSE 10 * digitsToNumber(SubSeq(chars, 1, Len(chars) - 1)) + digit(chars[Len(chars)])

\* new Date(value) for a string: the instant the text denotes (the inverse of
\* toISOString), or an Invalid Date
newDate(value) ==
    LET chars == value.s
        wellFormed ==
            /\ value.t = "string"
            /\ Len(chars) >= 2
            /\ chars[Len(chars)] = "Z"
            /\ \A i \in 1..(Len(chars) - 1) : \E d \in 1..Len(Digits) : Digits[d] = chars[i]
    IN  IF wellFormed
        THEN [valid |-> TRUE, ms |-> digitsToNumber(SubSeq(chars, 1, Len(chars) - 1))]
        ELSE [valid |-> FALSE, ms |-> 0]

\* date < other: false when either is an Invalid Date (NaN)
dateBefore(date, other) == date.valid /\ other.valid /\ date.ms < other.ms

\* Date.prototype.toDateString: the text of the calendar day of the instant
\* in the zone of the browser; modelled by the decimal text of the day number
toDateString(date, zone) ==
    IF date.valid THEN numberToString((date.ms + zone) \div Day)
    ELSE <<"I", "n", "v", "a", "l", "i", "d", " ", "D", "a", "t", "e">>

\* isOverdue without the test on toDateString
isOverdue_noGrace(dueDate, clock, zone) ==
    IF ~Truthy(dueDate) THEN FALSE
    ELSE dateBefore(newDate(dueDate), [valid |-> TRUE, ms |-> clock])

\* isOverdue(dueDate), at the instant clock in the zone of the browser
isOverdue(dueDate, clock, zone) ==
    IF ~Truthy(dueDate) THEN FALSE
    ELSE /\ dateBefore(newDate(dueDate), [valid |-> TRUE, ms |-> clock])
         /\ toDateString(newDate(dueDate), zone)
               # toDateString([valid |-> TRUE, ms |-> clock], zone)

MaxQuarterDays == 5     \* instants lie within this many quarter days of MountTime

Hour == Day \div 24
Instants == {MountTime + k * 6 * Hour : k \in (0 - MaxQuarterDays)..MaxQuarterDays}
Zones == {0 - 5 * Hour, 0, 9 * Hour}

\* a due date and the instant it denotes (-1: none)
DueDates ==
    {[dueDate |-> Str(toISOString(t)), instant |-> t] : t \in Instants}
    \cup {[dueDate |-> v, instant |-> 0 - 1] :
             v \in {Undefined, Null, Str(<<>>), Str(<<"s", "o", "o", "n">>)}}

DateInit ==
    /\ taskFilterIdle
    /\ normIdle
    /\ navbarIdle
    /\ call \in {[dueDate |-> d.dueDate, instant |-> d.instant, clock |-> t, zone |-> z] :
                    d \in DueDates, t \in Instants, z \in Zones}
    /\ result = Undefined
    /\ callPc = "start"

isOverdueCall ==
    /\ callPc = "start"
    /\ "dueDate" \in DOMAIN call
    /\ result' = isOverdue(call.dueDate, call.clock, call.zone)
    /\ callPc' = "done"
    /\ UNCHANGED <<taskFilter, normProbe, navbar, call>>

DateNext == isOverdueCall

DateSpec == DateInit /\ [][DateNext]_vars

\* the calendar day of an instant in a zone
LocalDay(t, zone) == (t + zone) \div Day

\* C13: isOverdue is true exactly when the due date is present, before the
\* current instant and on another calendar day, that is on an earlier day;
\* a due date earlier on the current day is not overdue
C13_OverdueFromNextDay ==
    callPc = "done" =>
        /\ result = (/\ call.instant >= 0
                     /\ call.instant < call.clock
                     /\ LocalDay(call.instant, call.zone) # LocalDay(call.clock, call.zone))
        /\ result = (/\ call.instant >= 0
                     /\ LocalDay(call.instant, call.zone) < LocalDay(call.clock, call.zone))

\* a due date of the current day, 18 hours before the current instant
C13_Witness ==
    /\ callPc = "done"
    /\ call.instant = call.clock - 18 * Hour
    /\ LocalDay(call.instant, call.zone) = LocalDay(call.clock, call.zone)
    /\ call.zone = 9 * Hour
    /\ result = FALSE

-----------------------------------------------------------------------------
(* The Navbar (src/src/components/common/Navbar.jsx)                       *)

rootPath == <<"/">>
loginPath == <<"/", "l", "o", "g", "i", "n">>
signupPath == <<"/", "s", "i", "g", "n", "u", "p">>
forgotPath == <<"/", "f", "o", "r", "g", "o", "t", "-", "p", "a", "s", "s", "w", "o", "r", "d">>
resetPath == <<"/", "r", "e", "s", "e", "t", "-", "p", "a", "s", "s", "w", "o", "r", "d">>
adminPrefix == <<"/", "a", "d", "m", "i", "n">>
adminDashboard ==
    <<"/", "a", "d", "m", "i", "n", "/", "d", "a", "s", "h", "b", "o", "a", "r", "d">>
userDashboard ==
    <<"/", "u", "s", "e", "r", "/", "d", "a", "s", "h", "b", "o", "a", "r", "d">>
adminProfilePath == <<"/", "a", "d", "m", "i", "n", "/", "p", "r", "o", "f", "i", "l", "e">>
userProfilePath == <<"/", "u", "s", "e", "r", "/", "p", "r", "o", "f", "i", "l", "e">>
UserName == <<"U", "s", "e", "r">>
adminRole == <<"a", "d", "m", "i", "n">>
userRole == <<"u", "s", "e", "r">>

authRoutes == {loginPath, signupPath, forgotPath, resetPath}

\* String.prototype.startsWith
startsWith(chars, prefix) ==
    Len(chars) >= Len(prefix) /\ SubSeq(chars, 1, Len(prefix)) = prefix

\* a stored text that is not JSON: a token
TokenText == [kind |-> "invalid", items |-> <<"t">>]
\* the JSON text of an object
ObjectText(object) == [kind |-> "object", items |-> <<object>>]

\* isAuthenticated with && in place of ||
isAuthenticated_both(authUser, tokenText) == Truthy(authUser) /\ TextTruthy(tokenText)

\* const isAuthenticated = !!user || !!localStorage.getItem("token")
isAuthenticated(authUser, tokenText) == Truthy(authUser) \/ TextTruthy(tokenText)

\* profileKey giving "userProfile" in both portals
profileKey_userOnly(pathname) == "userProfile"

\* isAdminPortal ? "adminProfile" : "userProfile"
profileKey(pathname) ==
    IF startsWith(pathname, adminPrefix) THEN "adminProfile" ELSE "userProfile"

\* what the return statement renders on the right of the logo
branchOf(authenticated, pathname) ==
    IF authenticated THEN "authenticated"
    ELSE IF pathname \in authRoutes THEN "hidden" ELSE "public"

DefaultProfile == [name |-> Str(UserName), profilePic |-> Str(<<>>), role |-> Str(userRole)]

\* the profile effect: an unparsable text makes JSON.parse throw in the
\* effect, which unmounts the component tree
profileEffect(n, storage) ==
    IF ~n.auth THEN n
    ELSE LET text == storage[profileKey(n.pathname)]
         IN  IF text = NoEntry THEN n
             ELSE IF text.kind # "object"
                  THEN [n EXCEPT !.crashed = TRUE, !.branch = "none"]
                  ELSE LET storedProfile == text.items[1]
                       IN  [n EXCEPT !.profile =
                              [name |-> Or(Get(storedProfile, "name"), Str(UserName)),
                               profilePic |-> Or(Get(storedProfile, "profilePic"), Str(<<>>)),
                               role |-> Or(Get(storedProfile, "role"),
                                           IF startsWith(n.pathname, adminPrefix)
                                           THEN Str(adminRole) ELSE Str(userRole))]]

\* a render of the component whose state is to become n, after the render
\* prev; the effect runs when one of its dependencies changed
render(prev, n, storage) ==
    LET authenticated == isAuthenticated(n.user, storage.token)
        r == [n EXCEPT !.auth = authenticated,
                       !.tokenRead = storage.token,
                       !.branch = branchOf(authenticated, n.pathname)]
    IN  IF r.pathname # prev.pathname \/ authenticated # prev.auth
        THEN profileEffect(r, storage) ELSE r

\* the first render and its effect; removed is the key of the last
\* removeItem of handleLogout
mountNavbar(authUser, pathname, storage) ==
    LET authenticated == isAuthenticated(authUser, storage.token)
    IN  profileEffect([user |-> authUser,
                       pathname |-> pathname,
                       dropdownOpen |-> FALSE,
                       taskListOpen |-> FALSE,
                       profile |-> DefaultProfile,
                       auth |-> authenticated,
                       tokenRead |-> storage.token,
                       branch |-> branchOf(authenticated, pathname),
                       logoTimer |-> <<>>,
                       logoutPath |-> <<>>,
                       removed |-> "none",
                       crashed |-> FALSE], storage)

AuthUser == [email |-> Str(Alice)]
AuthUsers == {Null, AuthUser}
Routes == {rootPath, loginPath, userDashboard, adminDashboard}
TokenTexts == {NoEntry, EmptyText, TokenText}
ProfileTexts ==
    {NoEntry, InvalidText,
     ObjectText([name |-> Str(Alice), role |-> Str(adminRole)])}

\* logout() of the auth context, by its outcome
logoutOutcomes == {"rejected", "userCleared", "userAndTokenCleared"}

NavInit ==
    /\ taskFilterIdle
    /\ normIdle
    /\ callIdle
    /\ ls \in [token : TokenTexts, userProfile : ProfileTexts, adminProfile : ProfileTexts]
    /\ \E authUser \in AuthUsers, pathname \in Routes :
          nav = mountNavbar(authUser, pathname, ls)

\* navigate(path)
navigate(n, path) == [n EXCEPT !.pathname = path]

\* onClick of the Tasks button
toggleTaskList ==
    /\ ~nav.crashed /\ nav.branch = "authenticated"
    /\ nav' = render(nav, [nav EXCEPT !.taskListOpen = ~nav.taskListOpen], ls)
    /\ UNCHANGED <<taskFilter, normProbe, callProbe, ls>>

\* onClick of the profile button
toggleDropdown ==
    /\ ~nav.crashed /\ nav.branch = "authenticated"
    /\ nav' = render(nav, [nav EXCEPT !.dropdownOpen = ~nav.dropdownOpen], ls)
    /\ UNCHANGED <<taskFilter, normProbe, callProbe, ls>>

\* handleClickOutside, outside both dropdowns
handleClickOutside ==
    /\ ~nav.crashed
    /\ nav.dropdownOpen \/ nav.taskListOpen
    /\ nav' = render(nav, [nav EXCEPT !.dropdownOpen = FALSE, !.taskListOpen = FALSE], ls)
    /\ UNCHANGED <<taskFilter, normProbe, callProbe, ls>>

\* the Profile link of the dropdown
profileLinkClick ==
    /\ ~nav.crashed /\ nav.branch = "authenticated" /\ nav.dropdownOpen
    /\ nav' = render(nav, navigate([nav EXCEPT !.dropdownOpen = FALSE],
                                   IF nav.profile.role = Str(adminRole)
                                   THEN adminProfilePath ELSE userProfilePath), ls)
    /\ UNCHANGED <<taskFilter, normProbe, callProbe, ls>>

\* handleLogout, up to the await of logout()
handleLogout ==
    /\ ~nav.crashed /\ nav.branch = "authenticated" /\ nav.dropdownOpen
    /\ nav.logoutPath = <<>>
    /\ nav' = [nav EXCEPT !.logoutPath = nav.pathname]
    /\ UNCHANGED <<taskFilter, normProbe, callProbe, ls>>

\* handleLogout, from the settling of logout() to its end
handleLogoutResumes(outcome) ==
    /\ nav.logoutPath # <<>>
    /\ IF outcome = "rejected"
       THEN /\ nav' = [nav EXCEPT !.logoutPath = <<>>]
            /\ UNCHANGED ls
       ELSE LET afterLogout ==
                    IF outcome = "userAndTokenCleared"
                    THEN [ls EXCEPT !.token = NoEntry] ELSE ls
                storage == [afterLogout EXCEPT ![profileKey(nav.logoutPath)] = NoEntry]
            IN  /\ ls' = storage
                /\ nav' = IF nav.crashed
                          THEN [nav EXCEPT !.logoutPath = <<>>, !.user = Null,
                                           !.removed = profileKey(nav.logoutPath)]
                          ELSE render(nav,
                                      navigate([nav EXCEPT !.logoutPath = <<>>,
                                                           !.user = Null,
                                                           !.removed = profileKey(nav.logoutPath)],
                                               rootPath), storage)
    /\ UNCHANGED <<taskFilter, normProbe, callProbe>>

\* handleLogoClick
handleLogoClick ==
    /\ ~nav.crashed
    /\ IF ~nav.auth
       THEN nav' = render(nav, navigate(nav, rootPath), ls)
       ELSE /\ nav.logoTimer = <<>>
            /\ nav' = [nav EXCEPT !.logoTimer = nav.pathname]
    /\ UNCHANGED <<taskFilter, normProbe, callProbe, ls>>

\* the 500 ms timer of handleLogoClick: reload on the dashboard, else go there
logoTimerFires ==
    /\ nav.logoTimer # <<>>
    /\ LET dashboard == IF startsWith(nav.logoTimer, adminPrefix)
                        THEN adminDashboard ELSE userDashboard
       IN  IF nav.logoTimer = dashboard
           THEN \E authUser \in AuthUsers :
                    nav' = [mountNavbar(authUser, nav.pathname, ls)
                               EXCEPT !.removed = nav.removed]
           ELSE nav' = IF nav.crashed THEN [nav EXCEPT !.logoTimer = <<>>]
                       ELSE render(nav, navigate([nav EXCEPT !.logoTimer = <<>>],
                                                 dashboard), ls)
    /\ UNCHANGED <<taskFilter, normProbe, callProbe, ls>>

\* the Log In and Sign Up buttons
publicButtonClick(path) ==
    /\ ~nav.crashed /\ nav.branch = "public"
    /\ nav' = render(nav, navigate(nav, path), ls)
    /\ UNCHANGED <<taskFilter, normProbe, callProbe, ls>>

\* the auth context gets or loses its user
authContextChanges(authUser) ==
    /\ ~nav.crashed
    /\ authUser # nav.user
    /\ nav' = render(nav, [nav EXCEPT !.user = authUser], ls)
    /\ UNCHANGED <<taskFilter, normProbe, callProbe, ls>>

\* other code of the page (the login, the auth context) sets or removes an
\* entry; nothing is rendered
otherCodeWrites(key, text) ==
    /\ ls[key] # text
    /\ ls' = [ls EXCEPT ![key] = text]
    /\ UNCHANGED <<taskFilter, normProbe, callProbe, nav>>

NavNext ==
    \/ toggleTaskList
    \/ toggleDropdown
    \/ handleClickOutside
    \/ profileLinkClick
    \/ handleLogout
    \/ \E outcome \in logoutOutcomes : handleLogoutResumes(outcome)
    \/ handleLogoClick
    \/ logoTimerFires
    \/ \E path \in {loginPath, signupPath} : publicButtonClick(path)
    \/ \E authUser \in AuthUsers : authContextChanges(authUser)
    \/ \E text \in TokenTexts : otherCodeWrites("token", text)

NavSpec == NavInit /\ [][NavNext]_vars

-----------------------------------------------------------------------------
(* Claims about the Navbar                                                 *)

\* C14 (as stated): the authenticated controls are rendered exactly when a
\* 'token' entry is present in the store at the render, whatever its value.
C14_BranchByTokenPresence ==
    ~nav.crashed => ((nav.branch = "authenticated") <=> (nav.tokenRead # NoEntry))

\* C14: the authenticated controls are rendered exactly when, at the render,
\* the auth context holds a user or the 'token' entry is a non-empty text;
\* otherwise the public branch is rendered, and nothing on the auth routes.
C14_BranchByUserOrToken ==
    ~nav.crashed =>
        LET signedIn == nav.user # Null \/ nav.tokenRead \notin {NoEntry, EmptyText}
        IN  /\ (nav.branch = "authenticated") <=> signedIn
            /\ (nav.branch = "public") <=> (~signedIn /\ nav.pathname \notin authRoutes)
            /\ (nav.branch = "hidden") <=> (~signedIn /\ nav.pathname \in authRoutes)

C14_Witness ==
    /\ ~nav.crashed
    /\ nav.branch = "authenticated"
    /\ nav.user # Null
    /\ nav.tokenRead = NoEntry
    /\ nav.taskListOpen

ProfileKeys == {"userProfile", "adminProfile"}

\* C15 (as stated): no Navbar step writes or removes the 'userProfile' or
\* the 'adminProfile' entry.
C15_ProfilesReadOnly ==
    [][\A key \in ProfileKeys : ls'[key] = ls[key]]_vars

\* C15: no Navbar step writes a profile entry; an entry is removed only by
\* the logout, once logout() has resolved, and it is the entry of the portal
\* in which Logout was clicked; the other entry stays as it is.
C15_ProfilesOnlyRemovedByLogout ==
    [][\A key \in ProfileKeys :
          ls'[key] # ls[key] =>
              /\ ls'[key] = NoEntry
              /\ nav.logoutPath # <<>>
              /\ nav'.logoutPath = <<>>
              /\ key = (IF startsWith(nav.logoutPath, adminPrefix)
                        THEN "adminProfile" ELSE "userProfile")
              /\ \A other \in ProfileKeys \ {key} : ls'[other] = ls[other]]_vars

C15_Witness ==
    /\ nav.removed = "adminProfile"
    /\ ls.adminProfile = NoEntry
    /\ ls.userProfile # NoEntry
    /\ nav.pathname = rootPath

-----------------------------------------------------------------------------
(* Claims about the criteria and about the storage and load handlers       *)

\* a step of the user on the filter controls: nothing outside the view moves
FilterStep ==
    /\ UNCHANGED <<store, events, mounted, timer, now>>
    /\ <<filters, filteredTasks>>' # <<filters, filteredTasks>>

\* C16: the criteria start as the defaults and change only in a filter
\* change or a reset; the end of the initial load and the storage events
\* leave them as they are; a filter change or a reset leaves the task list
\* and the counts as they are; and no such step writes to the store.
C16_CriteriaFrame ==
    /\ filters = DefaultFilters
    /\ [][/\ filters' # filters => FilterStep
          /\ (LoadStep \/ DeliverStep) => filters' = filters
          /\ FilterStep => UNCHANGED <<tasks, counts, store, writes>>]_vars

C16_Witness ==
    /\ timer = "done"
    /\ mounted
    /\ filters.status = complete
    /\ filters.search = fix
    /\ counts.all = 2
    /\ Len(tasks) = 2
    /\ Len(filteredTasks) < 2

\* the view handles a 'storage' event of the tasks entry
TasksEventStep == DeliverStep /\ mounted /\ Head(events).key = tasksKey

\* C17 (as stated): an event of the tasks entry whose new value is not a
\* valid JSON array of records (unparsable text, a non-array value, an array
\* with a null element) leaves the task list, the filtered list, the counts,
\* the error and the loading flag as they were.
C17_InvalidValueAbsorbed ==
    [][(/\ TasksEventStep
        /\ Head(events).newValue # NoEntry
        /\ parseMapThrows(Head(events).newValue))
          => UNCHANGED <<tasks, filteredTasks, counts, error, loading>>]_vars

\* C17: such an event is absorbed when its new value is a non-empty text;
\* the empty string is unparsable too but is taken for the empty array, so
\* the lists are emptied and the counts zeroed, error and loading staying.
C17_NonEmptyInvalidValueAbsorbed ==
    [][/\ (TasksEventStep /\ Unloadable(Head(events).newValue))
             => UNCHANGED <<tasks, filteredTasks, counts, error, loading>>
       /\ (TasksEventStep /\ Head(events).newValue = EmptyText)
             => /\ tasks' = <<>>
                /\ filteredTasks' = <<>>
                /\ counts' = [all |-> 0, complete |-> 0, incomplete |-> 0]
                /\ UNCHANGED <<error, loading>>]_vars

C17_Witness ==
    /\ mounted
    /\ timer = "done"
    /\ events = <<>>
    /\ store = InvalidText
    /\ Len(tasks) = 1
    /\ counts.all = 1
    /\ error = Null
    /\ ~loading

\* one stored text for each path of the load
LoadPathTexts == {NoEntry, ArrayText(<<recA>>), InvalidText}

LiveInit == Init /\ store \in LoadPathTexts

LiveNext ==
    \/ Tick
    \/ loadTasks
    \/ storageEvent
    \/ \E text \in LoadPathTexts : otherTabWritesTasks(text)
    \/ handleFilterChange("status", complete)
    \/ resetFilters
    \/ unmount

\* the clock advances and the timer of the load fires once its delay has
\* passed
LiveSpec == LiveInit /\ [][LiveNext]_vars /\ WF_vars(Tick) /\ WF_vars(loadTasks)

\* C18: in a view that stays mounted loading eventually is false for good;
\* the load ends it on each of its paths (tasks stored, none stored, stored
\* value unloadable), nothing sets it again, and no storage event changes it.
C18_LoadingEnds ==
    /\ <>[](~mounted \/ ~loading)
    /\ [][/\ (LoadStep /\ mounted) => ~loading'
          /\ ~loading => ~loading'
          /\ DeliverStep => loading' = loading]_vars

C18_Witness ==
    /\ mounted
    /\ timer = "done"
    /\ ~loading
    /\ error = Str(LoadErrorMessage)
    /\ store = InvalidText
    /\ events = <<>>

====
